---- MODULE Spec2Model ----
(***************************************************************************)
(* Model of scan.py (moran-x/multicast-scan): the playlist scan            *)
(* (action_playlist) with the playlist codec (playlist_parser,             *)
(* create_file, playlist_add), the multicast probe                         *)
(* (check_udp_connectivity) and the stream identifier (get_ffprobe).       *)
(*                                                                         *)
(* Text is modelled as a sequence of tokens (a Python str is a tuple of    *)
(* short strings, concatenation is \o), a text file as the sequence of its *)
(* lines, each line without its terminating newline.  The tokens the code  *)
(* searches for ("#EXTINF:-1,", "@", ":") are tokens of their own, so the  *)
(* regular expressions and rsplit are computed on the text, not assumed.   *)
(* Channel names and addresses are single-line texts.                      *)
(***************************************************************************)
EXTENDS Integers, Sequences, FiniteSets, TLC

(***************************************************************************)
(* Bounds of the model.                                                    *)
(***************************************************************************)
\* longest input playlist, in lines
MaxLines == 4
\* longest "programs" array in the probing tool's JSON output, for a direct
\* call of get_ffprobe
MaxPrograms == 2
\* longest "programs" array in the probing tool's JSON output during a scan
MaxScanPrograms == 1

(***************************************************************************)
(* Literal text of the code.                                               *)
(***************************************************************************)
EXTINF == "#EXTINF:-1,"
EXTM3U == <<"#EXTM3U">>
AT == "@"
COLON == ":"
DOT == "."
SLASH == "/"

\* the lines an input playlist is made of
NameLineNews == <<EXTINF, "News">>
NameLineSport == <<EXTINF, "Sport">>
AddrLineA == <<"udp://", AT, "239.1.1.10", COLON, "1234">>
AddrLineB == <<"udp://", AT, "239.1.1.10", COLON, "5000">>
AddrLineC == <<"udp://", AT, "239.1.1.11", COLON, "1234">>
AddrLineNoPort == <<"udp://", AT, "239.1.1.12">>
LineSet ==
    {EXTM3U, NameLineNews, NameLineSport, AddrLineA, AddrLineB, AddrLineC, AddrLineNoPort}

\* content of the output file left by an earlier run
StaleLines == <<EXTM3U, <<EXTINF, "Old">>, <<"udp://", AT, "239.9.9.9", COLON, "9">>>>

\* the service names the probing tool reports
ServiceNames == {<<"One">>, <<"Two">>}

(***************************************************************************)
(* Python values whose type the code tests (type(x) is int).               *)
(***************************************************************************)
PyInt(n) == [type |-> "int", int |-> n]
PyStr(s) == [type |-> "str", str |-> s]
PyNone == [type |-> "NoneType"]

(***************************************************************************)
(* Text helpers.                                                           *)
(***************************************************************************)
\* index of the first occurrence of token t in text s, 0 if there is none
RECURSIVE FirstIndex(_, _, _)
FirstIndex(s, t, i) ==
    IF i > Len(s) THEN 0
    ELSE IF s[i] = t THEN i
    ELSE FirstIndex(s, t, i + 1)

\* index of the last occurrence of token t in text s, 0 if there is none
RECURSIVE LastIndex(_, _, _)
LastIndex(s, t, i) ==
    IF i < 1 THEN 0
    ELSE IF s[i] = t THEN i
    ELSE LastIndex(s, t, i - 1)

\* re.search(r'(?<=MARK)(.*)(?=$)', line): the text after the first MARK
RegexAfter(line, mark) ==
    LET i == FirstIndex(line, mark, 1)
    IN IF i = 0 THEN [match |-> FALSE, group |-> <<>>]
       ELSE [match |-> TRUE, group |-> SubSeq(line, i + 1, Len(line))]

\* v.rsplit(':', 1): the list of one or two parts
rsplit(v) ==
    LET i == LastIndex(v, COLON, Len(v))
    IN IF i = 0 THEN <<v>>
       ELSE <<SubSeq(v, 1, i - 1), SubSeq(v, i + 1, Len(v))>>

\* s.rsplit(sep, 1)[0]: the text before the last sep, all of s if there is none
rsplit_head(s, sep) ==
    LET i == LastIndex(s, sep, Len(s))
    IN IF i = 0 THEN s ELSE SubSeq(s, 1, i - 1)

(***************************************************************************)
(* The probing tool (ffprobe) as get_ffprobe sees it: subprocess.run       *)
(* raises (the tool cannot be started, or the timeout expires), or stdout  *)
(* is not JSON (json.loads raises), or stdout is a JSON value.             *)
(***************************************************************************)
\* a program of the "programs" array: its "streams" array (absent, or so
\* many stream objects) and its "tags" object (absent, without
\* "service_name", or with the service name, possibly empty)
Program(has_streams, streams, has_tags, has_name, name) ==
    [has_streams |-> has_streams, streams |-> streams,
     has_tags |-> has_tags, has_service_name |-> has_name, service_name |-> name]

StreamsShapes == {<<FALSE, 0>>, <<TRUE, 0>>, <<TRUE, 1>>}

TagsShapes ==
    {<<FALSE, FALSE, <<>>>>, <<TRUE, FALSE, <<>>>>, <<TRUE, TRUE, <<>>>>}
    \cup {<<TRUE, TRUE, n>> : n \in ServiceNames}

Programs == {Program(s[1], s[2], t[1], t[2], t[3]) : s \in StreamsShapes, t \in TagsShapes}

ProgramLists(max) == UNION {[1..n -> Programs] : n \in 0..max}

\* JSON values on stdout: a value that is no object (such as []), an object
\* without "programs" (such as {}), an object with a "programs" array
JsonValues(max) ==
    {[type |-> "array", has_programs |-> FALSE, programs |-> <<>>],
     [type |-> "object", has_programs |-> FALSE, programs |-> <<>>]}
    \cup {[type |-> "object", has_programs |-> TRUE, programs |-> ps] : ps \in ProgramLists(max)}

NoJson == [type |-> "none", has_programs |-> FALSE, programs |-> <<>>]

ToolOutcomesUpTo(max) ==
    {[kind |-> k, json |-> NoJson] : k \in {"oserror", "timeout", "invalid"}}
    \cup {[kind |-> "json", json |-> j] : j \in JsonValues(max)}

ToolOutcomes == ToolOutcomesUpTo(MaxPrograms)
ScanToolOutcomes == ToolOutcomesUpTo(MaxScanPrograms)

\* what a call returns to its caller: a value, or an exception raised
Return(value, out) == [exc |-> "none", value |-> value, out |-> out]
Raise(exc, out) == [exc |-> exc, value |-> PyNone, out |-> out]

NoDataLine(address, port) == <<"[*] No data found for ">> \o address \o <<COLON>> \o port
NoNameLine(address, port) ==
    <<"[*] !!! No channel name found for ">> \o address \o <<COLON>> \o port \o <<" !!!">>

\* a bug of ffprobe_programs: the tags of the program at hand decide even
\* when its "streams" array is empty
ffprobe_first_program_only(address, port, programs, i) ==
    IF i > Len(programs) THEN Return(PyNone, <<>>)
    ELSE LET program == programs[i]
         IN IF ~program.has_streams THEN Raise("KeyError", <<>>)
            ELSE IF program.has_tags /\ program.has_service_name /\ program.service_name # <<>>
                 THEN Return(PyStr(program.service_name), <<>>)
            ELSE Return(PyInt(1), <<NoNameLine(address, port)>>)

\* the loop over json_string['programs'] and over program['streams']
RECURSIVE ffprobe_programs(_, _, _, _)
ffprobe_programs(address, port, programs, i) ==
    IF i > Len(programs) THEN Return(PyNone, <<>>)
    ELSE LET program == programs[i]
         IN IF ~program.has_streams THEN Raise("KeyError", <<>>)
            ELSE IF program.streams = 0
                 THEN ffprobe_programs(address, port, programs, i + 1)
            ELSE IF program.has_tags /\ program.has_service_name
                 THEN IF program.service_name # <<>>
                      THEN Return(PyStr(program.service_name), <<>>)
                      ELSE Return(PyInt(1), <<NoNameLine(address, port)>>)
            ELSE Return(PyInt(1), <<NoNameLine(address, port)>>)

get_ffprobe(address, port, result) ==
    IF result.kind # "json" THEN Return(PyInt(0), <<NoDataLine(address, port)>>)
    ELSE IF result.json.type # "object" THEN Raise("TypeError", <<>>)
    ELSE IF ~result.json.has_programs THEN Raise("KeyError", <<>>)
    ELSE ffprobe_programs(address, port, result.json.programs, 1)

(***************************************************************************)
(* The playlist codec.                                                     *)
(***************************************************************************)
\* a bug of DictSet: the first value of a key is kept
DictSetKeepFirst(d, k, v) ==
    IF \E i \in 1..Len(d) : d[i].k = k THEN d ELSE Append(d, [k |-> k, v |-> v])

\* a bug of DictSet: an existing key moves to the end with its new value
DictSetMoveToEnd(d, k, v) ==
    Append(SelectSeq(d, LAMBDA item : item.k # k), [k |-> k, v |-> v])

\* dictionary[k] = v on a dict kept as the sequence of its items: a new key
\* is appended, an existing key keeps its place and takes the new value
DictSet(d, k, v) ==
    IF \E i \in 1..Len(d) : d[i].k = k
    THEN [i \in 1..Len(d) |-> IF d[i].k = k THEN [k |-> k, v |-> v] ELSE d[i]]
    ELSE Append(d, [k |-> k, v |-> v])

\* the loop of playlist_parser from line i on; playlist.readline() takes the
\* line after a name line ('' at the end of the file)
RECURSIVE parse_lines(_, _, _)
parse_lines(lines, i, dictionary) ==
    IF i > Len(lines) THEN Return(dictionary, <<>>)
    ELSE LET channel_name == RegexAfter(lines[i], EXTINF)
             next_line == IF i + 1 <= Len(lines) THEN lines[i + 1] ELSE <<>>
             channel_address == RegexAfter(next_line, AT)
         IN IF ~channel_name.match THEN parse_lines(lines, i + 1, dictionary)
            ELSE IF ~channel_address.match THEN Raise("AttributeError", <<>>)
            ELSE parse_lines(lines, i + 2,
                             DictSet(dictionary, channel_name.group, channel_address.group))

playlist_parser(lines) == parse_lines(lines, 1, <<>>)

\* os.path.dirname(os.path.realpath(__file__)): the directory of the program
ProgramDir == <<SLASH, "opt", SLASH, "scan">>

\* os.path.join(a, b) for an absolute, non-empty a
path_join(a, b) ==
    IF Len(b) >= 1 /\ b[1] = SLASH THEN b
    ELSE IF a[Len(a)] = SLASH THEN a \o b
    ELSE a \o <<SLASH>> \o b

\* a bug of output_path: the input's name is kept as it is
output_path_same_name(playlist_path) == path_join(ProgramDir, playlist_path)

\* line 142-146 of create_file: the full path of the output file
output_path(playlist_path) ==
    LET playlistfilename == rsplit_head(playlist_path, DOT) \o <<"_name", DOT, "m3u">>
    IN path_join(ProgramDir, playlistfilename)

\* the file a path names for open() and os.path.isfile(): relative paths are
\* taken from the working directory
Resolve(cwd, path) == path_join(cwd, path)

\* a bug of create_file: the file is opened with 'a'
create_file_append(file) == [exists |-> TRUE, lines |-> file.lines \o <<EXTM3U>>]

\* the file as create_file leaves it: opened with 'w', the header written
create_file(file) == [exists |-> TRUE, lines |-> <<EXTM3U>>]

\* a bug of playlist_add: the address line is written before the name line
playlist_add_swapped(ip, port, name, file) ==
    [exists |-> TRUE,
     lines |-> file.lines \o <<<<"udp://", AT>> \o ip \o <<COLON>> \o port, <<EXTINF>> \o name.str>>]

\* a bug of playlist_add: every name is replaced by the synthetic one
playlist_add_synthetic(ip, port, name, file) ==
    [exists |-> TRUE,
     lines |-> file.lines \o <<<<EXTINF, "Channel: ">> \o ip \o <<COLON>> \o port,
                               <<"udp://", AT>> \o ip \o <<COLON>> \o port>>]

\* a bug of playlist_add: the port is left out of the address line
playlist_add_no_port(ip, port, name, file) ==
    [exists |-> TRUE,
     lines |-> file.lines \o <<<<EXTINF>> \o name.str, <<"udp://", AT>> \o ip>>]

\* the file as playlist_add leaves it: opened with 'a', two lines written
playlist_add(ip, port, name, file) ==
    LET channel_string ==
            IF name.type = "int"
            THEN <<EXTINF, "Channel: ">> \o ip \o <<COLON>> \o port
            ELSE <<EXTINF>> \o name.str
    IN [exists |-> TRUE,
        lines |-> file.lines \o <<channel_string, <<"udp://", AT>> \o ip \o <<COLON>> \o port>>]

(***************************************************************************)
(* The multicast probe.  The network decides: a datagram arrives, the      *)
(* timeout expires, or a socket call (bind, the multicast join, recv)      *)
(* fails with an OSError that the function does not catch.                 *)
(***************************************************************************)
NetOutcomes == {"datagram", "timeout", "oserror"}

check_udp_connectivity(url, net) ==
    IF net = "oserror" THEN Raise("OSError", <<>>)
    ELSE IF net = "datagram" THEN Return(TRUE, <<>>)
    ELSE Return(FALSE, <<>>)

(***************************************************************************)
(* State of a run of action_playlist(playlist, info_timeout, udp_timeout). *)
(***************************************************************************)
VARIABLES
    pc,                   \* where the run is
    playlist,             \* the input playlist file: [exists, lines]
    outfile,              \* the output playlist file: [exists, lines]
    channels_dictionary,  \* the parsed dict, as the sequence of its items
    done,                 \* number of items the for loop has finished
    v, ipaddr, port,      \* locals of the loop body
    probe,                \* what check_udp_connectivity returned (discarded by the code)
    info,                 \* what get_ffprobe returned
    console,              \* the lines printed so far
    fault,                \* the exception that ended the run, and where it was raised
    result,               \* the probing tool's outcome handed to a direct call of get_ffprobe
    argv,                 \* the arguments: [ip, port, playlist (a path, or none given)]
    env,                  \* the host: [os_name, ffprobe (installed), cwd]
    outpath,              \* playlistfile, the path create_file returned
    calls,                \* calls made so far: [probe, ffprobe]
    sockets,              \* probe sockets that are open
    mode                  \* the scan that is running: "single", "playlist" or "none"

vars ==
    <<pc, playlist, outfile, channels_dictionary, done, v, ipaddr, port, probe, info,
      console, fault, result, argv, env, outpath, calls, sockets, mode>>

PlaylistPath == <<"channels", ".", "m3u">>

NoFile == [exists |-> FALSE, lines |-> <<>>]
NoFault == [exc |-> "none", in |-> "none"]
Unset == [type |-> "unset"]
NoResult == [kind |-> "none", json |-> NoJson]
NoArg == <<>>
NoCalls == [probe |-> 0, ffprobe |-> 0]
LinuxHost == [os_name |-> "Linux", ffprobe |-> TRUE, cwd |-> ProgramDir]

InputLines == UNION {[1..n -> LineSet] : n \in 0..MaxLines}

Init ==
    /\ pc = "start"
    /\ playlist \in {NoFile} \cup {[exists |-> TRUE, lines |-> ls] : ls \in InputLines}
    /\ outfile \in {NoFile, [exists |-> TRUE, lines |-> StaleLines]}
    /\ channels_dictionary = <<>>
    /\ done = 0
    /\ v = <<>>
    /\ ipaddr = <<>>
    /\ port = <<>>
    /\ probe = "none"
    /\ info = Unset
    /\ console = <<>>
    /\ fault = NoFault
    /\ result = NoResult
    /\ argv = [ip |-> NoArg, port |-> NoArg, playlist |-> PlaylistPath]
    /\ env = LinuxHost
    /\ outpath = NoArg
    /\ calls = NoCalls
    /\ sockets = 0
    /\ mode = "playlist"

\* an exception nobody catches ends the run
Crash(exc, where) ==
    /\ pc' = "fault"
    /\ fault' = [exc |-> exc, in |-> where]

\* line 187-189: the output file is created before the input is looked at
CreateFile ==
    /\ pc = "start"
    /\ outpath' = output_path(argv.playlist)
    /\ IF Resolve(env.cwd, argv.playlist) = outpath'
       THEN \* the two paths name one file
            /\ outfile' = create_file(playlist)
            /\ playlist' = create_file(playlist)
       ELSE /\ outfile' = create_file(outfile)
            /\ UNCHANGED playlist
    /\ channels_dictionary' = <<>>
    /\ pc' = "created"
    /\ UNCHANGED <<done, v, ipaddr, port, probe, info, console, fault, result,
                   argv, env, calls, sockets, mode>>

\* line 192-196: os.path.isfile(playlist), exit() if it is no file
CheckPlaylist ==
    /\ pc = "created"
    /\ IF ~playlist.exists
       THEN /\ console' = Append(console, <<"[*] Please specify the correct file!">>)
            /\ pc' = "exit"
       ELSE /\ console' = Append(console, <<"[*] Playlist file: ">> \o argv.playlist)
            /\ pc' = "checked"
    /\ UNCHANGED <<playlist, outfile, channels_dictionary, done, v, ipaddr, port, probe,
                   info, fault, result, argv, env, outpath, calls, sockets, mode>>

\* line 199: channels_dictionary = playlist_parser(playlist)
Parse ==
    /\ pc = "checked"
    /\ LET r == playlist_parser(playlist.lines)
       IN IF r.exc = "none"
          THEN /\ channels_dictionary' = r.value
               /\ pc' = "loop"
               /\ UNCHANGED fault
          ELSE /\ Crash(r.exc, "playlist_parser")
               /\ UNCHANGED channels_dictionary
    /\ UNCHANGED <<playlist, outfile, done, v, ipaddr, port, probe, info, console, result,
                   argv, env, outpath, calls, sockets, mode>>

\* line 201-202: the next item of the dict, ipaddr, port = v.rsplit(':', 1)
NextEntry ==
    /\ pc = "loop"
    /\ done < Len(channels_dictionary)
    /\ LET item == channels_dictionary[done + 1]
           parts == rsplit(item.v)
       IN /\ v' = item.v
          /\ IF Len(parts) = 2
             THEN /\ ipaddr' = parts[1]
                  /\ port' = parts[2]
                  /\ pc' = "entry"
                  /\ UNCHANGED fault
             ELSE /\ Crash("ValueError", "action_playlist")
                  /\ UNCHANGED <<ipaddr, port>>
    /\ UNCHANGED <<playlist, outfile, channels_dictionary, done, probe, info, console, result,
                   argv, env, outpath, calls, sockets, mode>>

\* line 201: the dict is exhausted, action_playlist returns
LoopEnd ==
    /\ pc = "loop"
    /\ done = Len(channels_dictionary)
    /\ pc' = "done"
    /\ UNCHANGED <<playlist, outfile, channels_dictionary, done, v, ipaddr, port, probe,
                   info, console, fault, result, argv, env, outpath, calls, sockets, mode>>

\* line 75-87: the socket of a call of check_udp_connectivity when the call is
\* over.  The function never closes it.  When the call returns, the socket
\* object is garbage, and the runtime finalizes it (closing the socket) then
\* or later: the language does not say when.  When the call raises, the
\* traceback keeps the frame and with it the socket.
SocketsAfter(open, raised, finalized) ==
    IF ~raised /\ finalized THEN open ELSE open + 1

\* line 205: check_udp_connectivity(v, udp_timeout), its result dropped
Probe ==
    /\ pc = "entry"
    /\ \E net \in NetOutcomes, finalized \in BOOLEAN :
         LET r == check_udp_connectivity(v, net)
         IN /\ sockets' = SocketsAfter(sockets, r.exc # "none", finalized)
            /\ IF r.exc = "none"
               THEN /\ probe' = (IF r.value THEN "Alive" ELSE "Silent")
                    /\ pc' = "probed"
                    /\ UNCHANGED fault
               ELSE /\ probe' = "Fault"
                    /\ Crash(r.exc, "check_udp_connectivity")
    /\ calls' = [calls EXCEPT !.probe = @ + 1]
    /\ UNCHANGED <<playlist, outfile, channels_dictionary, done, v, ipaddr, port, info,
                   console, result, argv, env, outpath, mode>>

\* a bug of Identify: get_ffprobe is called only when the probe saw a datagram
Identify_only_when_alive ==
    /\ pc = "probed"
    /\ IF probe = "Alive"
       THEN /\ \E r \in {get_ffprobe(ipaddr, port, tool) : tool \in ScanToolOutcomes} :
                 /\ console' = console \o r.out
                 /\ IF r.exc = "none"
                    THEN /\ info' = r.value
                         /\ pc' = "identified"
                         /\ UNCHANGED fault
                    ELSE /\ Crash(r.exc, "get_ffprobe")
                         /\ UNCHANGED info
            /\ calls' = [calls EXCEPT !.ffprobe = @ + 1]
       ELSE /\ info' = PyInt(0)
            /\ pc' = "identified"
            /\ UNCHANGED <<console, fault, calls>>
    /\ UNCHANGED <<playlist, outfile, channels_dictionary, done, v, ipaddr, port, probe,
                   result, argv, env, outpath, sockets, mode>>

\* line 206: info = get_ffprobe(ipaddr, port, info_timeout)
Identify ==
    /\ pc = "probed"
    /\ \E r \in {get_ffprobe(ipaddr, port, tool) : tool \in ScanToolOutcomes} :
         /\ console' = console \o r.out
         /\ IF r.exc = "none"
            THEN /\ info' = r.value
                 /\ pc' = "identified"
                 /\ UNCHANGED fault
            ELSE /\ Crash(r.exc, "get_ffprobe")
                 /\ UNCHANGED info
    /\ calls' = [calls EXCEPT !.ffprobe = @ + 1]
    /\ UNCHANGED <<playlist, outfile, channels_dictionary, done, v, ipaddr, port, probe,
                   result, argv, env, outpath, sockets, mode>>

\* line 207-212: the console line and the row of the output playlist
Report ==
    /\ pc = "identified"
    /\ IF info.type = "int"
       THEN /\ console' = Append(console, v \o <<" - ">> \o ipaddr)
            /\ outfile' = playlist_add(ipaddr, port, PyStr(ipaddr), outfile)
            /\ done' = done + 1
            /\ pc' = "loop"
            /\ UNCHANGED fault
       ELSE IF info.type = "str"
       THEN /\ console' = Append(console, v \o <<" - ">> \o info.str)
            /\ outfile' = playlist_add(ipaddr, port, info, outfile)
            /\ done' = done + 1
            /\ pc' = "loop"
            /\ UNCHANGED fault
       ELSE /\ Crash("TypeError", "action_playlist")
            /\ UNCHANGED <<console, outfile, done>>
    /\ UNCHANGED <<playlist, channels_dictionary, v, ipaddr, port, probe, info, result,
                   argv, env, outpath, calls, sockets, mode>>

Next ==
    \/ CreateFile
    \/ CheckPlaylist
    \/ Parse
    \/ NextEntry
    \/ LoopEnd
    \/ Probe
    \/ Identify
    \/ Report

Spec == Init /\ [][Next]_vars

(***************************************************************************)
(* A direct call of get_ffprobe(address, port, info_timeout): the target   *)
(* and the probing tool's outcome are drawn, the call is one step.         *)
(***************************************************************************)
Targets == {AddrLineA, AddrLineB, AddrLineC}

InitIdentify ==
    /\ pc = "get_ffprobe"
    /\ result \in ToolOutcomes
    /\ \E t \in Targets :
         /\ v = RegexAfter(t, AT).group
         /\ ipaddr = rsplit(v)[1]
         /\ port = rsplit(v)[2]
    /\ playlist = NoFile
    /\ outfile = NoFile
    /\ channels_dictionary = <<>>
    /\ done = 0
    /\ probe = "none"
    /\ info = Unset
    /\ console = <<>>
    /\ fault = NoFault
    /\ argv = [ip |-> ipaddr, port |-> port, playlist |-> NoArg]
    /\ env = LinuxHost
    /\ outpath = NoArg
    /\ calls = NoCalls
    /\ sockets = 0
    /\ mode = "none"

\* line 26-64: the call returns a value or raises
GetFfprobe ==
    /\ pc = "get_ffprobe"
    /\ LET r == get_ffprobe(ipaddr, port, result)
       IN /\ console' = console \o r.out
          /\ IF r.exc = "none"
             THEN /\ info' = r.value
                  /\ pc' = "returned"
                  /\ UNCHANGED fault
             ELSE /\ Crash(r.exc, "get_ffprobe")
                  /\ UNCHANGED info
    /\ calls' = [calls EXCEPT !.ffprobe = @ + 1]
    /\ UNCHANGED <<playlist, outfile, channels_dictionary, done, v, ipaddr, port, probe,
                   result, argv, env, outpath, sockets, mode>>

NextIdentify == GetFfprobe

SpecIdentify == InitIdentify /\ [][NextIdentify]_vars

(***************************************************************************)
(* A run of main(): the platform check, the check that ffprobe is          *)
(* installed, the single-target scan action_ip_port(args.ip, args.port,    *)
(* ...) and then the playlist scan action_playlist(args.playlist, ...).    *)
(***************************************************************************)
\* longest input playlist of a run of main, in pairs of a name line and an
\* address line
MaxMainPairs == 2

LinePairs ==
    {<<n, a>> : n \in {NameLineNews, NameLineSport}, a \in {AddrLineA, AddrLineB, AddrLineC}}

RECURSIVE FlattenPairs(_)
FlattenPairs(pairs) ==
    IF pairs = <<>> THEN <<>>
    ELSE <<Head(pairs)[1], Head(pairs)[2]>> \o FlattenPairs(Tail(pairs))

\* the playlists of up to max pairs under the header line
PairPlaylists(max) ==
    {<<EXTM3U>> \o FlattenPairs(ps) : ps \in UNION {[1..n -> LinePairs] : n \in 0..max}}

\* --ip and --port: the defaults of line 19-20, or another target
DefaultTarget == [ip |-> <<"239.1.1.10">>, port |-> <<"1234">>]
OtherTarget == [ip |-> <<"239.1.1.11">>, port |-> <<"5000">>]

InitMain ==
    /\ pc = "main"
    /\ env \in [os_name : {"Linux", "Windows"}, ffprobe : BOOLEAN, cwd : {ProgramDir}]
    /\ \E t \in {DefaultTarget, OtherTarget}, pl \in {NoArg, PlaylistPath} :
         argv = [ip |-> t.ip, port |-> t.port, playlist |-> pl]
    /\ IF argv.playlist = NoArg
       THEN playlist = NoFile
       ELSE playlist \in {NoFile}
                \cup {[exists |-> TRUE, lines |-> ls] : ls \in PairPlaylists(MaxMainPairs)}
    /\ outfile \in {NoFile, [exists |-> TRUE, lines |-> StaleLines]}
    /\ channels_dictionary = <<>>
    /\ done = 0
    /\ v = <<>>
    /\ ipaddr = <<>>
    /\ port = <<>>
    /\ probe = "none"
    /\ info = Unset
    /\ console = <<>>
    /\ fault = NoFault
    /\ result = NoResult
    /\ outpath = NoArg
    /\ calls = NoCalls
    /\ sockets = 0
    /\ mode = "none"

\* line 239-244: the platform check
MainCheckOS ==
    /\ pc = "main"
    /\ IF env.os_name # "Linux"
       THEN /\ console' = Append(console,
                   <<"[*] This script only works on Unix base systems. Your system is ",
                     env.os_name>>)
            /\ pc' = "exit"
       ELSE /\ pc' = "os_ok"
            /\ UNCHANGED console
    /\ UNCHANGED <<playlist, outfile, channels_dictionary, done, v, ipaddr, port, probe,
                   info, fault, result, argv, env, outpath, calls, sockets, mode>>

\* line 247-251: subprocess.call(['ffprobe', '-v', 'quiet'])
MainCheckFfprobe ==
    /\ pc = "os_ok"
    /\ IF ~env.ffprobe
       THEN /\ console' = Append(console,
                   <<"[*] ffprobe are not installed! Please install first: https://ffmpeg.org/">>)
            /\ pc' = "exit"
       ELSE /\ pc' = "tools_ok"
            /\ UNCHANGED console
    /\ UNCHANGED <<playlist, outfile, channels_dictionary, done, v, ipaddr, port, probe,
                   info, fault, result, argv, env, outpath, calls, sockets, mode>>

\* a bug of MainSingle: with --playlist given the single-target scan is left out
MainSingle_unless_playlist ==
    /\ pc = "tools_ok"
    /\ IF argv.ip # NoArg /\ argv.port # NoArg /\ argv.playlist = NoArg
       THEN /\ mode' = "single"
            /\ ipaddr' = argv.ip
            /\ port' = argv.port
            /\ pc' = "ip_start"
       ELSE /\ pc' = "ip_skipped"
            /\ UNCHANGED <<mode, ipaddr, port>>
    /\ UNCHANGED <<playlist, outfile, channels_dictionary, done, v, probe, info, console,
                   fault, result, argv, env, outpath, calls, sockets>>

\* line 254-255: if args.ip and args.port: action_ip_port(...)
MainSingle ==
    /\ pc = "tools_ok"
    /\ IF argv.ip # NoArg /\ argv.port # NoArg
       THEN /\ mode' = "single"
            /\ ipaddr' = argv.ip
            /\ port' = argv.port
            /\ pc' = "ip_start"
       ELSE /\ pc' = "ip_skipped"
            /\ UNCHANGED <<mode, ipaddr, port>>
    /\ UNCHANGED <<playlist, outfile, channels_dictionary, done, v, probe, info, console,
                   fault, result, argv, env, outpath, calls, sockets>>

\* line 223: check_udp_connectivity(ip+':'+str(port), udp_timeout)
IpProbe ==
    /\ pc = "ip_start"
    /\ v' = ipaddr \o <<COLON>> \o port
    /\ \E net \in NetOutcomes, finalized \in BOOLEAN :
         LET r == check_udp_connectivity(v', net)
         IN /\ sockets' = SocketsAfter(sockets, r.exc # "none", finalized)
            /\ IF r.exc = "none"
               THEN /\ probe' = (IF r.value THEN "Alive" ELSE "Silent")
                    /\ pc' = "ip_probed"
                    /\ UNCHANGED fault
               ELSE /\ probe' = "Fault"
                    /\ Crash(r.exc, "check_udp_connectivity")
    /\ calls' = [calls EXCEPT !.probe = @ + 1]
    /\ UNCHANGED <<playlist, outfile, channels_dictionary, done, ipaddr, port, info,
                   console, result, argv, env, outpath, mode>>

\* line 224: info = get_ffprobe(ip, port, info_timeout)
IpIdentify ==
    /\ pc = "ip_probed"
    /\ \E r \in {get_ffprobe(ipaddr, port, tool) : tool \in ScanToolOutcomes} :
         /\ console' = console \o r.out
         /\ IF r.exc = "none"
            THEN /\ info' = r.value
                 /\ pc' = "ip_identified"
                 /\ UNCHANGED fault
            ELSE /\ Crash(r.exc, "get_ffprobe")
                 /\ UNCHANGED info
    /\ calls' = [calls EXCEPT !.ffprobe = @ + 1]
    /\ UNCHANGED <<playlist, outfile, channels_dictionary, done, v, ipaddr, port, probe,
                   result, argv, env, outpath, sockets, mode>>

\* line 225-228: the console line
IpReport ==
    /\ pc = "ip_identified"
    /\ IF info.type = "int"
       THEN /\ console' = Append(console, ipaddr \o <<COLON>> \o port \o <<" - ">> \o ipaddr)
            /\ pc' = "ip_done"
            /\ UNCHANGED fault
       ELSE IF info.type = "str"
       THEN /\ console' = Append(console, ipaddr \o <<COLON>> \o port \o <<" - ">> \o info.str)
            /\ pc' = "ip_done"
            /\ UNCHANGED fault
       ELSE /\ Crash("TypeError", "action_ip_port")
            /\ UNCHANGED console
    /\ UNCHANGED <<playlist, outfile, channels_dictionary, done, v, ipaddr, port, probe,
                   info, result, argv, env, outpath, calls, sockets, mode>>

\* line 258-259: if args.playlist: action_playlist(...)
MainPlaylist ==
    /\ pc \in {"ip_done", "ip_skipped"}
    /\ IF argv.playlist # NoArg
       THEN /\ mode' = "playlist"
            /\ pc' = "start"
       ELSE /\ mode' = "none"
            /\ pc' = "main_done"
    /\ UNCHANGED <<playlist, outfile, channels_dictionary, done, v, ipaddr, port, probe,
                   info, console, fault, result, argv, env, outpath, calls, sockets>>

NextMain ==
    \/ MainCheckOS
    \/ MainCheckFfprobe
    \/ MainSingle
    \/ IpProbe
    \/ IpIdentify
    \/ IpReport
    \/ MainPlaylist
    \/ Next

SpecMain == InitMain /\ [][NextMain]_vars

(***************************************************************************)
(* create_file(playlist) called from action_playlist on any of a           *)
(* collection of input paths: relative and absolute, with and without      *)
(* directories, with and without an extension; the working directory is    *)
(* the program's directory or another one.                                 *)
(***************************************************************************)
OtherDir == <<SLASH, "home", SLASH, "tv">>

InputPaths ==
    { <<"channels", DOT, "m3u">>,
      <<"channels">>,
      <<"channels", DOT, "tar", DOT, "m3u">>,
      <<"lists", SLASH, "channels", DOT, "m3u">>,
      <<"tv", DOT, "d", SLASH, "channels">>,
      <<"lists", SLASH, "channels">>,
      <<DOT, DOT, SLASH, "channels">>,
      <<SLASH, "data", SLASH, "channels", DOT, "m3u">>,
      <<SLASH, "data", SLASH, "channels">>,
      <<SLASH, "opt", SLASH, "scan", SLASH, "channels", DOT, "m3u">> }

InitCreateFile ==
    /\ pc = "start"
    /\ argv \in [ip : {NoArg}, port : {NoArg}, playlist : InputPaths]
    /\ env \in [os_name : {"Linux"}, ffprobe : {TRUE}, cwd : {ProgramDir, OtherDir}]
    /\ playlist \in {NoFile}
           \cup {[exists |-> TRUE, lines |-> ls] : ls \in PairPlaylists(1)}
    /\ outfile \in {NoFile, [exists |-> TRUE, lines |-> StaleLines]}
    /\ channels_dictionary = <<>>
    /\ done = 0
    /\ v = <<>>
    /\ ipaddr = <<>>
    /\ port = <<>>
    /\ probe = "none"
    /\ info = Unset
    /\ console = <<>>
    /\ fault = NoFault
    /\ result = NoResult
    /\ outpath = NoArg
    /\ calls = NoCalls
    /\ sockets = 0
    /\ mode = "playlist"

NextCreateFile == CreateFile

SpecCreateFile == InitCreateFile /\ [][NextCreateFile]_vars

(***************************************************************************)
(* A run of action_playlist on a playlist of pairs of a name line and an   *)
(* address line, long enough for a name to come back after another name.   *)
(***************************************************************************)
MaxPairs == 3

InitPairs ==
    /\ pc = "start"
    /\ playlist \in {[exists |-> TRUE, lines |-> ls] : ls \in PairPlaylists(MaxPairs)}
    /\ outfile = NoFile
    /\ channels_dictionary = <<>>
    /\ done = 0
    /\ v = <<>>
    /\ ipaddr = <<>>
    /\ port = <<>>
    /\ probe = "none"
    /\ info = Unset
    /\ console = <<>>
    /\ fault = NoFault
    /\ result = NoResult
    /\ argv = [ip |-> NoArg, port |-> NoArg, playlist |-> PlaylistPath]
    /\ env = LinuxHost
    /\ outpath = NoArg
    /\ calls = NoCalls
    /\ sockets = 0
    /\ mode = "playlist"

SpecPairs == InitPairs /\ [][Next]_vars

(***************************************************************************)
(* Vocabulary of the claims.                                               *)
(***************************************************************************)
\* the three outcomes of Identify, as values returned by get_ffprobe
IsNoStreamData(x) == x.type = "int" /\ x.int = 0
IsStreamUnnamed(x) == x.type = "int" /\ x.int = 1
IsResolved(x) == x.type = "str" /\ x.str # <<>>

\* an entry has just been written: the loop is back at its head, and v,
\* ipaddr, port, info are still those of that entry
JustWritten == pc = "loop" /\ done > 0

LastLine(lines) == lines[Len(lines)]
LastButOne(lines) == lines[Len(lines) - 1]

\* the address line of a row for the target text t ("<address>:<port>")
AddressLine(t) == <<"udp://", AT>> \o t

(***************************************************************************)
(* C1: in playlist mode, when identification of an entry ends as           *)
(* StreamUnnamed or NoStreamData (get_ffprobe returns 1 or 0), the name    *)
(* line appended for the entry is "#EXTINF:-1,Channel: <address>:<port>"   *)
(* and the console line names the entry by its bare address.               *)
(* The code passes the address (a str) as the name, so playlist_add writes *)
(* "#EXTINF:-1,<address>": the formula is violated.                        *)
(***************************************************************************)
C1_FallbackNameLine ==
    (JustWritten /\ info.type = "int") =>
        /\ LastButOne(outfile.lines) = <<EXTINF, "Channel: ">> \o ipaddr \o <<COLON>> \o port
        /\ LastLine(console) = v \o <<" - ">> \o ipaddr

(***************************************************************************)
(* C2: with an existing playlist, whatever the probe (Alive or Silent) and *)
(* the identification yield, the scan loop never aborts: a run that has    *)
(* ended has a row for every entry of the parsed mapping.  Stated for the  *)
(* runs in which parsing, the split of the address and the probe itself    *)
(* did not fail.  The code lets KeyError and TypeError out of get_ffprobe  *)
(* and raises TypeError on a None result: the formula is violated.         *)
(***************************************************************************)
C2_EveryEntryWritten ==
    (/\ pc \in {"done", "fault"}
     /\ fault.in \notin {"playlist_parser", "check_udp_connectivity"}
     /\ fault.exc # "ValueError") =>
        /\ pc = "done"
        /\ done = Len(channels_dictionary)
        /\ Len(outfile.lines) = 1 + 2 * Len(channels_dictionary)

(***************************************************************************)
(* C3: once create_file has returned, the output file is the header line   *)
(* followed by one two-line row (a name line, then udp://@<address>:<port>)*)
(* for each entry processed so far, in the order of processing, and no     *)
(* later step changes, duplicates or removes what the file already holds.  *)
(***************************************************************************)
IsPrefix(s, t) == Len(s) <= Len(t) /\ SubSeq(t, 1, Len(s)) = s

IsNameLine(line) == Len(line) >= 1 /\ line[1] = EXTINF

RowsWritten ==
    /\ outfile.exists
    /\ Len(outfile.lines) = 1 + 2 * done
    /\ outfile.lines[1] = EXTM3U
    /\ \A i \in 1..done :
         /\ IsNameLine(outfile.lines[2 * i])
         /\ outfile.lines[2 * i + 1] = AddressLine(channels_dictionary[i].v)

C3_OutputAppendOnly ==
    /\ [](pc # "start" => RowsWritten)
    /\ [][pc # "start" => IsPrefix(outfile.lines, outfile'.lines)]_vars

C3_Witness == pc = "done" /\ done = 2 /\ Len(outfile.lines) = 5

(***************************************************************************)
(* C4: no fault escapes from get_ffprobe, for every outcome of the tool:   *)
(* it returns Resolved(name), StreamUnnamed or NoStreamData, and the       *)
(* caller's handling of the value does not raise.  The code raises         *)
(* KeyError for {} and for a program without "streams", TypeError for a    *)
(* JSON value that is no object, and returns None for an empty "programs"  *)
(* array, on which the caller raises TypeError: the formula is violated.   *)
(***************************************************************************)
C4_IdentifyNeverRaises ==
    /\ ~(pc = "fault" /\ fault.in = "get_ffprobe")
    /\ pc = "identified" => (IsResolved(info) \/ IsStreamUnnamed(info) \/ IsNoStreamData(info))
    /\ ~(pc = "fault" /\ fault.in = "action_playlist" /\ fault.exc = "TypeError")

(***************************************************************************)
(* C5: in playlist mode, when identification of an entry ends as           *)
(* Resolved(name), the name is not empty and the row appended for the      *)
(* entry is "#EXTINF:-1,<name>" with the name verbatim, followed by        *)
(* "udp://@<address>:<port>" of that entry.                                *)
(***************************************************************************)
C5_ResolvedNameLine ==
    (JustWritten /\ info.type = "str") =>
        /\ info.str # <<>>
        /\ LastButOne(outfile.lines) = <<EXTINF>> \o info.str
        /\ LastLine(outfile.lines) = AddressLine(channels_dictionary[done].v)

C5_Witness == JustWritten /\ info.type = "str" /\ done = 2

(***************************************************************************)
(* C6: when the playlist path names no existing file, the run ends in      *)
(* exit() with the output file created and holding the header line alone;  *)
(* the existence check comes after create_file, and nothing is parsed,     *)
(* probed, identified or appended in that run.                             *)
(***************************************************************************)
C6_MissingPlaylist ==
    ~playlist.exists =>
        /\ pc \in {"start", "created", "exit"}
        /\ pc # "exit" => ENABLED Next
        /\ pc # "start" => outfile = [exists |-> TRUE, lines |-> <<EXTM3U>>]
        /\ channels_dictionary = <<>>
        /\ done = 0
        /\ probe = "none"
        /\ info = Unset
        /\ fault = NoFault

C6_Witness == ~playlist.exists /\ pc = "exit" /\ outfile.lines = <<EXTM3U>>

(***************************************************************************)
(* C7: get_ffprobe returns 0 (NoStreamData) whenever the tool times out,   *)
(* cannot be started, prints text that is no JSON, or prints               *)
(* {"programs":[]}.  For {"programs":[]} the loop body never runs and the  *)
(* function returns None: the formula is violated.                         *)
(***************************************************************************)
EmptyPrograms ==
    [kind |-> "json", json |-> [type |-> "object", has_programs |-> TRUE, programs |-> <<>>]]

C7_NoStreamData ==
    (result.kind \in {"oserror", "timeout", "invalid"} \/ result = EmptyPrograms) =>
        /\ pc # "fault"
        /\ pc = "returned" => IsNoStreamData(info)

(***************************************************************************)
(* C8: playlist_parser returns a mapping with one entry per distinct name  *)
(* on an "#EXTINF:-1,<name>" line; the value of an entry is the text after *)
(* "@" on the line that follows the last name line with that name          *)
(* (last-write-wins), so the addresses of earlier lines with the name are  *)
(* not in the mapping under it.                                            *)
(***************************************************************************)
Parsed ==
    \/ pc \in {"loop", "entry", "probed", "identified", "done"}
    \/ pc = "fault" /\ fault.in # "playlist_parser"

NameLineIdx == {i \in 1..Len(playlist.lines) : RegexAfter(playlist.lines[i], EXTINF).match}
NameAt(i) == RegexAfter(playlist.lines[i], EXTINF).group
AddressAfter(i) ==
    IF i + 1 <= Len(playlist.lines) THEN RegexAfter(playlist.lines[i + 1], AT).group ELSE <<>>
LastWith(name) ==
    CHOOSE i \in NameLineIdx :
        /\ NameAt(i) = name
        /\ \A j \in NameLineIdx : NameAt(j) = name => j <= i

C8_ParseLastWriteWins ==
    Parsed =>
        LET d == channels_dictionary
        IN /\ \A i, j \in 1..Len(d) : d[i].k = d[j].k => i = j
           /\ {d[i].k : i \in 1..Len(d)} = {NameAt(i) : i \in NameLineIdx}
           /\ \A i \in 1..Len(d) : d[i].v = AddressAfter(LastWith(d[i].k))

C8_Witness ==
    /\ pc = "loop"
    /\ done = 0
    /\ Len(channels_dictionary) = 1
    /\ \E i, j \in NameLineIdx :
         i < j /\ NameAt(i) = NameAt(j) /\ AddressAfter(i) # AddressAfter(j)

(***************************************************************************)
(* C9: a name line that is not followed by a line with an "@" address (a   *)
(* name line at the end of the file included) is dropped silently: the     *)
(* parser raises nothing and the run goes on.  The code calls .group() on  *)
(* the None that re.search returns and raises AttributeError: the formula  *)
(* is violated.                                                            *)
(***************************************************************************)
C9_DanglingNameLineDropped ==
    /\ ~(pc = "fault" /\ fault.in = "playlist_parser")
    /\ (playlist.exists /\ pc \notin {"start", "created", "checked"}) => Parsed

(***************************************************************************)
(* C10: round trip.  As claimed: after a completed playlist run, parsing   *)
(* the output playlist yields entries whose addresses are exactly the      *)
(* targets probed in the run, for every combination of names, entries with *)
(* the same display name included.  Violated: the parser keys by name, so  *)
(* of two rows with the same name line only the later one comes back.      *)
(***************************************************************************)
Reparsed == playlist_parser(outfile.lines)

AddressesOf(d) == {d[i].v : i \in 1..Len(d)}

C10_RoundTripAllTargets ==
    pc = "done" =>
        /\ Reparsed.exc = "none"
        /\ AddressesOf(Reparsed.value) = AddressesOf(channels_dictionary)

\* The same statement for the runs in which every entry was Resolved: it is
\* violated as well (two targets that carry the same service name), so the
\* violation does not rest on the fallback name that C1 is about.
AllResolved ==
    \A i \in 1..done :
        \E n \in ServiceNames : outfile.lines[2 * i] = <<EXTINF>> \o n

C10_RoundTripAllResolved ==
    (pc = "done" /\ AllResolved) =>
        AddressesOf(Reparsed.value) = AddressesOf(channels_dictionary)

(***************************************************************************)
(* C10 as amended: after a completed playlist run, parsing the output      *)
(* playlist raises nothing and yields one entry per distinct name line     *)
(* written, whose address is the target of the last row written under that *)
(* name; so the addresses are exactly the probed targets when no two       *)
(* entries received the same display name.                                 *)
(***************************************************************************)
LastUnderItsName(i) ==
    \A j \in (i + 1)..done : outfile.lines[2 * j] # outfile.lines[2 * i]

C10_RoundTripLastPerName ==
    pc = "done" =>
        /\ Reparsed.exc = "none"
        /\ AddressesOf(Reparsed.value) =
               {channels_dictionary[i].v : i \in {k \in 1..done : LastUnderItsName(k)}}
        /\ (\A i \in 1..done : LastUnderItsName(i)) =>
               AddressesOf(Reparsed.value) = AddressesOf(channels_dictionary)

C10_Witness ==
    /\ pc = "done"
    /\ done = 2
    /\ outfile.lines[2] = outfile.lines[4]
    /\ channels_dictionary[1].v # channels_dictionary[2].v

(***************************************************************************)
(* C11: single-target mode.  As claimed: action_ip_port runs the probe     *)
(* once and then the identification once for the given address and port,   *)
(* prints exactly one result line `<address>:<port> - <name>` (the         *)
(* resolved service name, or the bare address when the identification gave *)
(* StreamUnnamed or NoStreamData), and touches no file.  Stated for the    *)
(* calls in which the probe returned.  Violated: get_ffprobe raises        *)
(* KeyError or returns None (see C4), and then no result line is printed.  *)
(***************************************************************************)
DiagnosticHeads == {"[*] No data found for ", "[*] !!! No channel name found for "}

ResultLines(lines) == SelectSeq(lines, LAMBDA l : l[1] \notin DiagnosticHeads)

C11_SingleTargetOnce ==
    (mode = "single" /\ pc \in {"ip_done", "fault"} /\ probe \in {"Alive", "Silent"}) =>
        /\ pc = "ip_done"
        /\ calls = [probe |-> 1, ffprobe |-> 1]
        /\ ResultLines(console) =
               <<argv.ip \o <<COLON>> \o argv.port \o <<" - ">>
                   \o (IF IsResolved(info) THEN info.str ELSE argv.ip)>>
        /\ outpath = NoArg
        /\ outfile \in {NoFile, [exists |-> TRUE, lines |-> StaleLines]}

(***************************************************************************)
(* C12: the output playlist's place and name.  As claimed: for every input *)
(* path, create_file places the output in the running program's directory  *)
(* (not the input's) under the input's file name with its final extension  *)
(* replaced by `_name.m3u`, and the file then holds exactly the header     *)
(* line.  Violated: the whole input path, directories included, is cut at  *)
(* its last dot and joined to the program's directory, and os.path.join    *)
(* drops the program's directory when the input path is absolute.          *)
(***************************************************************************)
\* the part of a path after its last separator
Basename(path) ==
    IF LastIndex(path, SLASH, Len(path)) = 0 THEN path
    ELSE SubSeq(path, LastIndex(path, SLASH, Len(path)) + 1, Len(path))

\* a file name without its final extension
Stem(name) ==
    IF LastIndex(name, DOT, Len(name)) = 0 THEN name
    ELSE SubSeq(name, 1, LastIndex(name, DOT, Len(name)) - 1)

ExpectedOutput(path) ==
    ProgramDir \o <<SLASH>> \o Stem(Basename(path)) \o <<"_name", DOT, "m3u">>

C12_OutputInProgramDir ==
    pc = "created" =>
        /\ outpath = ExpectedOutput(argv.playlist)
        /\ outfile = [exists |-> TRUE, lines |-> <<EXTM3U>>]

(***************************************************************************)
(* C13: which program decides.  As claimed: for parseable tool output with *)
(* a non-empty "programs" array the outcome of get_ffprobe is determined   *)
(* by the tags of the first program alone (a non-empty service_name gives  *)
(* Resolved(that name), a missing or empty one StreamUnnamed), whatever    *)
(* its "streams" array holds and whatever programs follow.  Violated: a    *)
(* first program with an empty "streams" array is passed over and the next *)
(* program decides.                                                        *)
(***************************************************************************)
ProgramsGiven ==
    /\ result.kind = "json"
    /\ result.json.type = "object"
    /\ result.json.has_programs
    /\ result.json.programs # <<>>

HasName(program) ==
    program.has_tags /\ program.has_service_name /\ program.service_name # <<>>

\* the outcome that the tags of a program stand for
DecidedBy(program) ==
    /\ pc = "returned"
    /\ IF HasName(program)
       THEN IsResolved(info) /\ info.str = program.service_name
       ELSE IsStreamUnnamed(info)

C13_FirstProgramTags ==
    (pc # "get_ffprobe" /\ ProgramsGiven) => DecidedBy(result.json.programs[1])

\* The same statement for the calls that return a name or a number: violated
\* as well, so the violation does not rest on the faults that C4 is about.
C13_FirstProgramTagsOnReturn ==
    (pc = "returned" /\ ProgramsGiven /\ info.type \in {"int", "str"}) =>
        DecidedBy(result.json.programs[1])

(***************************************************************************)
(* C13 as amended: for parseable tool output with a non-empty "programs"   *)
(* array, programs whose "streams" array is empty are passed over and the  *)
(* first program that is not decides: if it has at least one stream, its   *)
(* tags alone give Resolved(name) or StreamUnnamed, whatever programs      *)
(* follow; if it has no "streams" key the call raises KeyError, and if     *)
(* every program has an empty "streams" array the call returns None (the   *)
(* faults of C4).                                                          *)
(***************************************************************************)
NotPassedOver ==
    {i \in 1..Len(result.json.programs) :
        \/ ~result.json.programs[i].has_streams
        \/ result.json.programs[i].streams > 0}

FirstNotPassedOver ==
    CHOOSE i \in NotPassedOver : \A j \in NotPassedOver : i <= j

C13_FirstProgramWithStream ==
    (pc # "get_ffprobe" /\ ProgramsGiven) =>
        IF NotPassedOver = {}
        THEN pc = "returned" /\ info = PyNone
        ELSE IF ~result.json.programs[FirstNotPassedOver].has_streams
        THEN pc = "fault" /\ fault.exc = "KeyError"
        ELSE DecidedBy(result.json.programs[FirstNotPassedOver])

C13_Witness ==
    /\ pc = "returned"
    /\ ProgramsGiven
    /\ Len(result.json.programs) = 2
    /\ result.json.programs[1].has_streams
    /\ result.json.programs[1].streams = 0
    /\ result.json.programs[1].service_name = <<"One">>
    /\ result.json.programs[2].streams = 1
    /\ IsResolved(info)
    /\ info.str = <<"Two">>

(***************************************************************************)
(* C14: the order of the steps of an entry, in both modes.  The entry at   *)
(* hand is parsed, then probed, then identified, then written, no step     *)
(* twice: get_ffprobe is called only after check_udp_connectivity has      *)
(* returned for the same entry, once, whether the probe saw a datagram     *)
(* (Alive) or not (Silent), and check_udp_connectivity is called for entry *)
(* k+1 only when the row of entry k is in the output file.  Counted with   *)
(* the number of calls made so far, the number of entries finished (done)  *)
(* and the number of rows in the output file.                              *)
(***************************************************************************)
\* calls made by the single-target scan that main runs before the playlist
SingleScans == IF argv.ip # NoArg /\ argv.port # NoArg THEN 1 ELSE 0

ProbesOfPlaylist == calls.probe - SingleScans
IdentifiesOfPlaylist == calls.ffprobe - SingleScans
Rows == (Len(outfile.lines) - 1) \div 2

InLoop ==
    /\ mode = "playlist"
    /\ \/ pc \in {"loop", "entry", "probed", "identified", "done"}
       \/ pc = "fault" /\ fault.in # "playlist_parser"

StepsInOrder ==
    /\ mode = "single" =>
          /\ pc = "ip_start" => calls = [probe |-> 0, ffprobe |-> 0]
          /\ pc = "ip_probed" =>
                calls = [probe |-> 1, ffprobe |-> 0] /\ probe \in {"Alive", "Silent"}
          /\ pc \in {"ip_identified", "ip_done"} => calls = [probe |-> 1, ffprobe |-> 1]
          /\ Len(ResultLines(console)) = (IF pc = "ip_done" THEN 1 ELSE 0)
    /\ InLoop =>
          /\ Rows = done
          /\ pc \in {"loop", "entry", "done"} =>
                ProbesOfPlaylist = done /\ IdentifiesOfPlaylist = done
          /\ pc = "probed" =>
                /\ ProbesOfPlaylist = done + 1
                /\ IdentifiesOfPlaylist = done
                /\ probe \in {"Alive", "Silent"}
          /\ pc = "identified" =>
                ProbesOfPlaylist = done + 1 /\ IdentifiesOfPlaylist = done + 1

\* a call of get_ffprobe follows a returned probe of the same entry, a call of
\* check_udp_connectivity follows the row of the entry before, and a row
\* follows the identification of its entry
StepFollowsStep ==
    /\ calls'.ffprobe # calls.ffprobe =>
          /\ calls'.ffprobe = calls.ffprobe + 1
          /\ calls.probe = calls.ffprobe + 1
          /\ probe \in {"Alive", "Silent"}
    /\ calls'.probe # calls.probe =>
          /\ calls'.probe = calls.probe + 1
          /\ calls.ffprobe = calls.probe
          /\ mode = "playlist" => Rows = ProbesOfPlaylist
    /\ (mode = "playlist" /\ outfile.exists /\ outfile'.lines # outfile.lines
            /\ pc # "start") =>
          /\ Len(outfile'.lines) = Len(outfile.lines) + 2
          /\ IdentifiesOfPlaylist = Rows + 1
          /\ calls' = calls

C14_StepOrder == []StepsInOrder /\ [][StepFollowsStep]_vars

C14_Witness ==
    /\ mode = "playlist"
    /\ pc = "identified"
    /\ done = 1
    /\ probe = "Silent"
    /\ SingleScans = 1

(***************************************************************************)
(* C15: the probe's socket.  As claimed: check_udp_connectivity releases   *)
(* its UDP socket on every way out (a datagram, the timeout, a fault of    *)
(* bind, of the multicast join or of recv), so that no probe socket is     *)
(* open when get_ffprobe starts or when the next probe begins, and never   *)
(* more than one is open.  Violated: the function has no close(), no with  *)
(* and no finally; the socket stays open until the runtime finalizes the   *)
(* socket object, and after a fault the traceback keeps it.                *)
(***************************************************************************)
C15_ProbeSocketReleased ==
    /\ pc \in {"entry", "probed", "ip_start", "ip_probed"} => sockets = 0
    /\ (pc = "fault" /\ fault.in = "check_udp_connectivity") => sockets = 0
    /\ sockets <= 1

(***************************************************************************)
(* C16: the order of the scan.  The entries are scanned, and their rows    *)
(* written, in the order in which each distinct name first appears in the  *)
(* input playlist; a name that comes back keeps the place of its first     *)
(* occurrence and carries the address of its last one; a completed run     *)
(* has written as many rows as there are distinct names.                   *)
(***************************************************************************)
\* the name lines of the input playlist with the given name, read off the
\* lines directly: the first one from line i on, the last one up to line i
RECURSIVE FirstNaming(_, _)
FirstNaming(name, i) ==
    IF i > Len(playlist.lines) THEN 0
    ELSE IF playlist.lines[i] = <<EXTINF>> \o name THEN i
    ELSE FirstNaming(name, i + 1)

RECURSIVE LastNaming(_, _)
LastNaming(name, i) ==
    IF i < 1 THEN 0
    ELSE IF playlist.lines[i] = <<EXTINF>> \o name THEN i
    ELSE LastNaming(name, i - 1)

DistinctNames ==
    {Tail(playlist.lines[i]) : i \in {j \in 1..Len(playlist.lines) : IsNameLine(playlist.lines[j])}}

\* the address on the line after the last name line with the name
LastAddress(name) ==
    LET line == playlist.lines[LastNaming(name, Len(playlist.lines)) + 1]
    IN SubSeq(line, 3, Len(line))

C16_FirstAppearanceOrder ==
    Parsed =>
        LET d == channels_dictionary
        IN \* the items: the distinct names, by first appearance, each with
           \* the address of its last occurrence
           /\ Len(d) = Cardinality(DistinctNames)
           /\ \A i \in 1..Len(d) :
                 /\ d[i].k \in DistinctNames
                 /\ d[i].v = LastAddress(d[i].k)
           /\ \A i \in 1..(Len(d) - 1) :
                 FirstNaming(d[i].k, 1) < FirstNaming(d[i + 1].k, 1)
           \* the entry at hand and the rows written follow the items
           /\ pc \in {"entry", "probed", "identified"} => v = d[done + 1].v
           /\ Rows = done
           /\ \A i \in 1..done : outfile.lines[2 * i + 1] = AddressLine(d[i].v)
           /\ pc = "done" => Rows = Cardinality(DistinctNames)

C16_Witness ==
    /\ pc = "done"
    /\ Len(playlist.lines) = 7
    /\ NameAt(2) = NameAt(6)
    /\ NameAt(2) # NameAt(4)
    /\ AddressAfter(2) # AddressAfter(6)
    /\ Rows = 2
    /\ outfile.lines[3] = AddressLine(AddressAfter(6))
    /\ outfile.lines[5] = AddressLine(AddressAfter(4))

(***************************************************************************)
(* C17: the output path is not the input path.  For every input path the   *)
(* path that create_file derives differs, as a string, from the input path *)
(* as given and as resolved against the working directory, so truncating   *)
(* the output file before the input is looked at leaves the input          *)
(* playlist's content as it was.                                           *)
(***************************************************************************)
C17_OutputNeverInput ==
    [][pc = "start" =>
          /\ outpath' # argv.playlist
          /\ outpath' # Resolve(env.cwd, argv.playlist)
          /\ playlist' = playlist]_vars

C17_Witness ==
    /\ pc = "created"
    /\ playlist.exists
    /\ Len(playlist.lines) = 3
    /\ Resolve(env.cwd, argv.playlist) = ProgramDir \o <<SLASH, "channels", DOT, "m3u">>
    /\ outpath = ProgramDir \o <<SLASH, "channels", "_name", DOT, "m3u">>

(***************************************************************************)
(* C18: main runs the single-target scan first.  With --ip and --port not  *)
(* empty (their defaults are not), main calls action_ip_port once the      *)
(* platform and ffprobe checks have passed, also when --playlist is given; *)
(* action_playlist, and with it create_file, starts only after the         *)
(* single-target scan has returned, and never after it has ended in a      *)
(* fault.                                                                  *)
(***************************************************************************)
OutputUntouched ==
    /\ outpath = NoArg
    /\ outfile \in {NoFile, [exists |-> TRUE, lines |-> StaleLines]}

SingleScanFirst ==
    \* until the playlist scan starts, no output path and no output file
    /\ mode # "playlist" => OutputUntouched
    \* the playlist scan is on: the single-target scan has returned
    /\ mode = "playlist" =>
          /\ calls.probe >= 1
          /\ calls.ffprobe >= 1
          /\ Len(console) >= 1
          /\ \E i \in 1..Len(console) :
                /\ console[i] \notin {NoDataLine(argv.ip, argv.port), NoNameLine(argv.ip, argv.port)}
                /\ IsPrefix(argv.ip \o <<COLON>> \o argv.port \o <<" - ">>, console[i])
                /\ \A j \in 1..(i - 1) : console[j][1] \in DiagnosticHeads

SingleScanThenPlaylist ==
    \* past the two checks, the single-target scan is what comes next
    /\ pc = "tools_ok" => (mode' = "single" /\ pc' = "ip_start")
    \* the playlist scan starts from the returned single-target scan only
    /\ (mode # "playlist" /\ mode' = "playlist") =>
          /\ pc = "ip_done"
          /\ argv.playlist # NoArg
          /\ calls = [probe |-> 1, ffprobe |-> 1]
          /\ pc' = "start"
    \* a fault of the single-target scan ends the run
    /\ (mode = "single" /\ pc = "fault") => UNCHANGED vars

C18_SingleScanFirst == []SingleScanFirst /\ [][SingleScanThenPlaylist]_vars

C18_Witness ==
    /\ mode = "playlist"
    /\ argv.ip = DefaultTarget.ip
    /\ argv.port = DefaultTarget.port
    /\ pc = "done"
    /\ done = 2
    /\ calls = [probe |-> 3, ffprobe |-> 3]

\* the other case of C18: the single-target scan of a run with --playlist ends
\* in a fault, and nothing of the playlist scan has happened
C18_FaultWitness ==
    /\ mode = "single"
    /\ pc = "fault"
    /\ argv.playlist # NoArg
    /\ playlist.exists
    /\ OutputUntouched

====
